---- MODULE Spec2Model ----
(***************************************************************************)
(* A model of the pixie-trap canvas: the coordinate transform under pan    *)
(* and zoom, the grid lookup, the sprite/hitbox registry and the           *)
(* SELECT / MOVE / DRAW pointer and keyboard handlers of                   *)
(* src/pixie_trap/canvas.py, with the tool handlers of                     *)
(* src/pixie_trap/frame.py that drive it.                                  *)
(*                                                                         *)
(* Conventions.                                                            *)
(*  - canvas.py calls the primitives in CapWords (Set, Append, Delete,     *)
(*    Contains, SelectScale); primitives.py defines them in lower case.    *)
(*    Each call is modelled by the method of the same name.                *)
(*  - A handler that raises (IndexError, KeyError, ZeroDivisionError) ends *)
(*    at the raising statement: what it assigned before stays assigned.    *)
(*  - magnify_factor is the pair <<num, den>>: an integer factor is        *)
(*    <<m, 1>>, the factor 1/n is <<1, n>>.  Floor division by the float   *)
(*    1/n is modelled with the rounding of the float (FloatErrSign).       *)
(*  - A sprite's map stores, under a hitbox key, what the code stores      *)
(*    there: DRAW stores an index into destinations, LoadPXT stores a      *)
(*    rectangle.  The class Sprite is not among the sources; reading       *)
(*    sprite.hitboxes[key] is modelled from the data model of the          *)
(*    specification (HitboxRect).                                          *)
(***************************************************************************)
EXTENDS Integers, Sequences, FiniteSets, TLC

\* ----------------------------------------------------------------- bounds
MaxCoord == 1
MaxSheet == 2
MaxGrid == 2
MaxZoom == 3
MaxPan == 3
MaxDoc == 2
MaxHitboxes == 2
MaxSaves == 1
MaxSide == 5
MaxCount == 3
MaxPoint == 4

\* ------------------------------------------------------ program constants
scale_radius == 5

\* None, as a hitbox key / as a sprite key (no cell has a negative origin) /
\* as a state or scale
None == <<"None", 0>>
NoneKey == <<-1, -1>>
NoneName == "None"
IntKey(n) == <<"int", n>>
StrKey(n) == <<"str", n>>
IsIntKey(k) == k[1] = "int"

SELECT == "SELECT"
MOVE == "MOVE"
DRAW == "DRAW"
States == {SELECT, MOVE, DRAW}

Scales == <<"TOP", "LEFT", "RIGHT", "BOTTOM", "TOP_LEFT", "TOP_RIGHT", "BOTTOM_LEFT", "BOTTOM_RIGHT">>

\* ------------------------------------------------------------- primitives
Point(x, y) == <<x, y>>
Rect(x, y, w, h) == [x |-> x, y |-> y, w |-> w, h |-> h]
ZeroRect == Rect(0, 0, 0, 0)

Abs(a) == IF a < 0 THEN -a ELSE a
Min(a, b) == IF a < b THEN a ELSE b
Max(a, b) == IF a < b THEN b ELSE a

\* int(): truncation toward zero of the rational num/den, den > 0
Trunc(num, den) == IF num >= 0 THEN num \div den ELSE -((-num) \div den)

\* Rect.contains: inclusive bounds
Contains(r, p) == /\ r.x <= p[1] /\ p[1] <= r.x + r.w
                  /\ r.y <= p[2] /\ p[2] <= r.y + r.h

\* ----------------------------------------------------------- magnification
\* np.power(float(abs(magnify)), np.sign(magnify))
Power(m) == IF m > 0 THEN <<m, 1>> ELSE <<1, -m>>

\* The sign of float(1/n) - 1/n in IEEE double precision.
FloatErrSign(n) ==
    CASE n \in {3, 6, 7, 9, 12} -> -1
      [] n \in {5, 10, 11} -> 1
      [] OTHER -> 0

\* a * factor instead of a // factor
MulFactor(a, f) == Trunc(a * f[1], f[2])

\* a // factor, for an integer a
FloorDivFactor(a, f) ==
    IF f[2] = 1 THEN a \div f[1]
    ELSE LET n == f[2]
             s == FloatErrSign(n)
         IN  IF (s < 0 /\ a < 0) \/ (s > 0 /\ a > 0) THEN a * n - 1 ELSE a * n

\* int(pan + p * factor)
ViewOf(pan, p, f) == Trunc(pan * f[2] + p * f[1], f[2])

\* the pan offset left as it was
ZoomPanKept(c, pan, old, new) == pan

\* int(c - (new / old) * (c - pan))
ZoomPan(c, pan, old, new) ==
    LET num == new[1] * old[2]
        den == new[2] * old[1]
    IN  Trunc(c * den - num * (c - pan), den)

\* ------------------------------------------------------------------ state
VARIABLES
    state,              \* Canvas.state: None, SELECT, MOVE or DRAW
    sheet_loaded,       \* Canvas.sheet_loaded
    saved,              \* Canvas.saved
    magnify,            \* Canvas.magnify
    magnify_factor,     \* Canvas.magnify_factor, <<num, den>>
    sheet,              \* size of Canvas.sheet, <<w, h>>
    sheet_pos,          \* Canvas.sheet_pos: pan offset (x, y) and drawn size
    rows,               \* Canvas.rows
    cols,               \* Canvas.cols
    select,             \* Canvas.select: None or a sprite key
    select_position,    \* Canvas.select_position
    select_preview,     \* Canvas.select_preview
    sprites,            \* Canvas.sprites: sprite key -> sprite
    sprite_names,       \* Canvas.sprite_names: sprite key -> label
    destinations,       \* Canvas.destinations: the columns of Rects
    n_hitboxes_created, \* Canvas.n_hitboxes_created
    hitbox_buffer,      \* Canvas.hitbox_buffer
    hitbox_select,      \* Canvas.hitbox_select
    scale_select,       \* Canvas.scale_select
    scale_rects,        \* Canvas.scale_rects: the eight pins
    left_down,          \* Canvas.left_down
    middle_down,        \* Canvas.middle_down
    pointer,            \* the mouse: position of the last mouse event
    leftIsDown,         \* the mouse: left button held
    middleIsDown,       \* the mouse: middle button held
    gridEditable,       \* Inspector: rows/cols fields enabled
    disk,               \* the archives written by SavePXT, the latest last
    zoomLevel,          \* history: zoom-in steps minus zoom-out steps since load
    issued,             \* history: hitbox ids handed out by DRAW, in order
    pressState,         \* history: state at the press of the drag in progress
    pressSprites,       \* history: sprites at the DRAW press of the drag in progress
    posted              \* history: the events posted to the host and not yet handled

canvasVars == <<state, sheet_loaded, saved, magnify, magnify_factor, sheet, sheet_pos,
                rows, cols, select, select_position, select_preview, sprites,
                sprite_names, destinations, n_hitboxes_created, hitbox_buffer,
                hitbox_select, scale_select, scale_rects, left_down, middle_down>>
envVars == <<pointer, leftIsDown, middleIsDown, gridEditable, disk>>
histVars == <<zoomLevel, issued, pressState, pressSprites, posted>>
vars == <<canvasVars, envVars, histVars>>

\* ---------------------------------------------------------------- registry
\* A sprite is [label, hitboxes]; hitboxes is the sequence of its entries in
\* insertion order.  An entry stores an index into destinations (idx >= 0,
\* written by DRAW) or a rectangle of its own (idx = -1, written by LoadPXT).
NoLabel == <<"none", 0, 0>>
\* f"x{select[0]}_y{select[1]}"
DefaultName(k) == <<"x_y", k[1], k[2]>>
Entry(key, idx, rect) == [key |-> key, idx |-> idx, rect |-> rect]
EmptySprite == [label |-> NoLabel, hitboxes |-> <<>>]

\* dict.get / `in`
HasSprite(k) == k \in DOMAIN sprites
Position(hs, key) ==
    IF \E i \in 1..Len(hs) : hs[i].key = key
    THEN CHOOSE i \in 1..Len(hs) : hs[i].key = key
    ELSE 0
HasKey(hs, key) == Position(hs, key) # 0

\* dict[key] = value: in place when the key exists, appended otherwise
PutEntry(hs, e) ==
    IF HasKey(hs, e.key) THEN [hs EXCEPT ![Position(hs, e.key)] = e]
    ELSE Append(hs, e)

\* del dict[key]
DelEntry(hs, key) ==
    LET i == Position(hs, key)
    IN  SubSeq(hs, 1, i - 1) \o SubSeq(hs, i + 1, Len(hs))

\* Rects.size, Rects.__getitem__ (python index idx, a copy), Rects.__setitem__,
\* Rects.append, Rects.delete
Size(d) == Len(d)
InRange(d, idx) == idx >= 0 /\ idx < Len(d)
Get(d, idx) == d[idx + 1]
SetRect(d, idx, r) == [d EXCEPT ![idx + 1] = r]
AppendRect(d, r) == Append(d, r)
Delete(d, idx) == SubSeq(d, 1, idx) \o SubSeq(d, idx + 2, Len(d))

\* sprite.hitboxes[key] read as a rectangle: a stored rectangle, or the
\* column the stored index names; Resolvable is FALSE where the read raises.
Resolvable(e) == e.idx = -1 \/ InRange(destinations, e.idx)
HitboxRect(e) == IF e.idx = -1 THEN e.rect ELSE Get(destinations, e.idx)

\* ------------------------------------------------------------ grid lookup
\* np.arange(start=0, stop=stop, step=step), step > 0
Arange(stop, step) == [i \in 1..((stop + step - 1) \div step) |-> (i - 1) * step]

\* the ruler interval containing v: <<left, width>>, <<0, 0>> when none does
Interval(rulers, v) ==
    LET hit == {i \in 1..(Len(rulers) - 1) : rulers[i] <= v /\ v < rulers[i + 1]}
    IN  IF hit = {} THEN <<0, 0>>
        ELSE LET i == CHOOSE j \in hit : TRUE
             IN  <<rulers[i], rulers[i + 1] - rulers[i]>>

\* document coordinate of a view coordinate, per axis
DocX(x) == FloorDivFactor(x - sheet_pos.x, magnify_factor)
DocY(y) == FloorDivFactor(y - sheet_pos.y, magnify_factor)

VStep == sheet[1] \div cols
HStep == sheet[2] \div rows
VRulers == Arange(sheet[1] + 1, VStep)
HRulers == Arange(sheet[2] + 1, HStep)

\* FindSelectionZone raises when a step is not positive (ZeroDivisionError
\* on rows or cols = 0, np.arange with step 0)
ZoneRaises == rows < 1 \/ cols < 1 \/ VStep < 1 \/ HStep < 1

FindSelectionZone(x, y) ==
    LET h == Interval(VRulers, DocX(x))
        v == Interval(HRulers, DocY(y))
    IN  Rect(h[1], v[1], h[2], v[2])

\* ------------------------------------------------------------ scaling pins
\* Rect.centre: Point(x + w / 2, y + h / 2), truncated by Point.set
Centre(r) == Point(Trunc(2 * r.x + r.w, 2), Trunc(2 * r.y + r.h, 2))

\* the directions that name each edge
LeftScales == {"LEFT", "TOP_LEFT", "BOTTOM_LEFT"}
RightScales == {"RIGHT", "TOP_RIGHT", "BOTTOM_RIGHT"}
TopScales == {"TOP", "TOP_LEFT", "TOP_RIGHT"}
BottomScales == {"BOTTOM", "BOTTOM_LEFT", "BOTTOM_RIGHT"}

\* a scale whose TOP_RIGHT grows the height by dy instead of shrinking it
ScaleTopRightGrows(r, scale, dx, dy) ==
    Rect(r.x + (IF scale \in LeftScales THEN dx ELSE 0),
         r.y + (IF scale \in TopScales THEN dy ELSE 0),
         r.w + (IF scale \in LeftScales THEN -dx ELSE IF scale \in RightScales THEN dx ELSE 0),
         r.h + (IF scale = "TOP_RIGHT" THEN dy
                ELSE IF scale \in TopScales THEN -dy
                ELSE IF scale \in BottomScales THEN dy ELSE 0))

\* a scale that clamps the width and the height at zero
ScaleClamped(r, scale, dx, dy) ==
    Rect(r.x + (IF scale \in LeftScales THEN dx ELSE 0),
         r.y + (IF scale \in TopScales THEN dy ELSE 0),
         Max(0, r.w + (IF scale \in LeftScales THEN -dx
                       ELSE IF scale \in RightScales THEN dx ELSE 0)),
         Max(0, r.h + (IF scale \in TopScales THEN -dy
                       ELSE IF scale \in BottomScales THEN dy ELSE 0)))

\* Rect.scale
Scale(r, scale, dx, dy) ==
    CASE scale = "TOP" -> [r EXCEPT !.y = @ + dy, !.h = @ - dy]
      [] scale = "LEFT" -> [r EXCEPT !.x = @ + dx, !.w = @ - dx]
      [] scale = "RIGHT" -> [r EXCEPT !.w = @ + dx]
      [] scale = "BOTTOM" -> [r EXCEPT !.h = @ + dy]
      [] scale = "TOP_LEFT" -> [r EXCEPT !.x = @ + dx, !.y = @ + dy, !.w = @ - dx, !.h = @ - dy]
      [] scale = "TOP_RIGHT" -> [r EXCEPT !.y = @ + dy, !.w = @ + dx, !.h = @ - dy]
      [] scale = "BOTTOM_LEFT" -> [r EXCEPT !.x = @ + dx, !.w = @ - dx, !.h = @ + dy]
      [] scale = "BOTTOM_RIGHT" -> [r EXCEPT !.w = @ + dx, !.h = @ + dy]
      [] OTHER -> r

\* ScaleRects.__init__: eight default rectangles
InitScaleRects == [i \in 1..8 |-> ZeroRect]

\* ScaleRects.set(rect, radius)
ScaleRectsSet(r, radius) ==
    LET d == 2 * radius
        c == Centre(r)
    IN  << Rect(c[1] - radius, r.y - radius, d, d),
           Rect(r.x - radius, c[2] - radius, d, d),
           Rect(r.x + r.w - radius, c[2] - radius, d, d),
           Rect(c[1] - radius, r.y + r.h - radius, d, d),
           Rect(r.x - radius, r.y - radius, d, d),
           Rect(r.x + r.w - radius, r.y - radius, d, d),
           Rect(r.x - radius, r.y + r.h - radius, d, d),
           Rect(r.x + r.w - radius, r.y + r.h - radius, d, d) >>

\* a selection that returns the last pin, in key order, containing the point
SelectScaleLast(rects, p) ==
    LET hit == {i \in 1..8 : Contains(rects[i], p)}
    IN  IF hit = {} THEN NoneName
        ELSE Scales[CHOOSE i \in hit : \A j \in hit : i >= j]

\* ScaleRects.select_scale: the first pin, in key order, containing the point
SelectScale(rects, p) ==
    LET hit == {i \in 1..8 : Contains(rects[i], p)}
    IN  IF hit = {} THEN NoneName
        ELSE Scales[CHOOSE i \in hit : \A j \in hit : i <= j]

\* ------------------------------------------------------------ event queue
\* wx.PostEvent queues an event for the host frame, which handles it in a
\* later turn of the event loop.  posted holds the kinds of event queued and
\* not yet handled; sessions that do not run the host's handlers leave the
\* queue untracked.
Untracked == {"untracked"}
NoPosts == {}
Queue(q, events) == IF q = Untracked THEN q ELSE q \cup (events \cap {"hitbox"})

\* ------------------------------------------------------------------- init
InitCanvas ==
    /\ state = NoneName
    /\ sheet_loaded = FALSE
    /\ saved = TRUE
    /\ magnify = 1
    /\ magnify_factor = <<1, 1>>
    /\ sheet = <<0, 0>>
    /\ sheet_pos = ZeroRect
    /\ rows = 1
    /\ cols = 1
    /\ select = NoneKey
    /\ select_position = ZeroRect
    /\ select_preview = ZeroRect
    /\ sprites = <<>>
    /\ sprite_names = <<>>
    /\ destinations = <<>>
    /\ n_hitboxes_created = 0
    /\ hitbox_buffer = Point(0, 0)
    /\ hitbox_select = None
    /\ scale_select = NoneName
    /\ scale_rects = InitScaleRects
    /\ left_down = Point(0, 0)
    /\ middle_down = Point(0, 0)
    /\ pointer = Point(0, 0)
    /\ leftIsDown = FALSE
    /\ middleIsDown = FALSE
    /\ gridEditable = FALSE
    /\ disk = <<>>
    /\ zoomLevel = 0
    /\ issued = <<>>
    /\ pressState = NoneName
    /\ pressSprites = <<>>

Init == InitCanvas /\ posted = Untracked

\* --------------------------------------------------------- pointer: press
\* what onLeftDown may assign besides left_down
pressVars == <<select_position, select, sprite_names, sprites, scale_select,
               hitbox_buffer, hitbox_select, destinations, n_hitboxes_created,
               saved, issued>>

\* the counter left as it was
NextCountStuck(n) == n

\* self.n_hitboxes_created += 1
NextCount(n) == n + 1

\* onLeftDown, state SELECT
LeftDownSelect ==
    IF ZoneRaises THEN UNCHANGED pressVars
    ELSE LET z == FindSelectionZone(pointer[1], pointer[2])
             k == Point(z.x, z.y)
         IN  /\ select_position' = z
             /\ IF z.w = 0 /\ z.h = 0
                THEN /\ select' = NoneKey
                     /\ UNCHANGED <<sprite_names, sprites>>
                ELSE /\ select' = k
                     /\ sprite_names' = IF k \in DOMAIN sprite_names
                                        THEN [sprite_names EXCEPT ![k] = DefaultName(k)]
                                        ELSE sprite_names @@ (k :> DefaultName(k))
                     /\ sprites' = IF HasSprite(k) THEN sprites
                                   ELSE sprites @@ (k :> EmptySprite)
             /\ UNCHANGED <<scale_select, hitbox_buffer, hitbox_select, destinations,
                            n_hitboxes_created, saved, issued>>

\* the first entry of hs, in insertion order, at which the hit-test loop ends:
\* one whose rectangle cannot be read, or one that contains the point; 0 if none
FirstHit(hs, p) ==
    LET stop == {i \in 1..Len(hs) : ~Resolvable(hs[i]) \/ Contains(HitboxRect(hs[i]), p)}
    IN  IF stop = {} THEN 0 ELSE CHOOSE i \in stop : \A j \in stop : i <= j

\* onLeftDown, state MOVE with a sprite selected
LeftDownMove ==
    LET view == Point(pointer[1] - sheet_pos.x, pointer[2] - sheet_pos.y)
        doc == Point(DocX(pointer[1]), DocY(pointer[2]))
        scale1 == IF hitbox_select # None THEN SelectScale(scale_rects, view)
                  ELSE scale_select
        buffer1 == IF hitbox_select # None THEN pointer ELSE hitbox_buffer
        hs == sprites[select].hitboxes
        i == FirstHit(hs, doc)
    IN  /\ scale_select' = scale1
        /\ IF scale1 = NoneName /\ HasSprite(select) /\ i # 0 /\ Resolvable(hs[i])
           THEN /\ hitbox_buffer' = Point(HitboxRect(hs[i]).x, HitboxRect(hs[i]).y)
                /\ hitbox_select' = hs[i].key
           ELSE /\ hitbox_buffer' = buffer1
                /\ UNCHANGED hitbox_select
        /\ UNCHANGED <<select_position, select, sprite_names, sprites, destinations,
                       n_hitboxes_created, saved, issued>>

\* onLeftDown, state DRAW with a sprite selected
LeftDownDraw ==
    LET sprite == Point(select_position.x, select_position.y)
        idx == Size(destinations)
        key == IntKey(n_hitboxes_created)
    IN  /\ destinations' = AppendRect(destinations,
                                      Rect(DocX(pointer[1]), DocY(pointer[2]), 0, 0))
        /\ hitbox_select' = IntKey(idx)
        /\ IF HasSprite(sprite)
           THEN /\ sprites' = [sprites EXCEPT ![sprite].hitboxes =
                                   PutEntry(@, Entry(key, idx, ZeroRect))]
                /\ n_hitboxes_created' = NextCount(n_hitboxes_created)
                /\ issued' = Append(issued, n_hitboxes_created)
                /\ saved' = FALSE
           ELSE UNCHANGED <<sprites, n_hitboxes_created, issued, saved>>
        /\ UNCHANGED <<select_position, select, sprite_names, scale_select, hitbox_buffer>>

\* no selection test at all
SelectedAlways(k) == TRUE

\* self.select is not None / the truth value of self.select
Selected(k) == k # NoneKey

\* ----------------------------------------------------------- notifications
\* the events onLeftDown posts: the sprite event after a SELECT press, the
\* hitbox event when a MOVE press finds a hitbox
LeftDownPosts ==
    CASE state = SELECT /\ ~ZoneRaises -> {"sprite"}
      [] /\ state = MOVE /\ Selected(select) /\ HasSprite(select)
         /\ (IF hitbox_select # None
             THEN SelectScale(scale_rects, Point(pointer[1] - sheet_pos.x,
                                                 pointer[2] - sheet_pos.y))
             ELSE scale_select) = NoneName
         /\ LET hs == sprites[select].hitboxes
                i == FirstHit(hs, Point(DocX(pointer[1]), DocY(pointer[2])))
            IN  i # 0 /\ Resolvable(hs[i]) -> {"hitbox"}
      [] OTHER -> {}

\* the events onKeyDown posts: none
KeyDownPosts == {}

\* Canvas.onLeftDown
OnLeftDown ==
    /\ ~leftIsDown
    /\ (state = DRAW /\ select # NoneKey) =>
            (n_hitboxes_created < MaxHitboxes /\ Size(destinations) < MaxHitboxes)
    /\ leftIsDown' = TRUE
    /\ left_down' = pointer
    /\ pressState' = state
    /\ pressSprites' = IF state = DRAW THEN sprites ELSE <<>>
    /\ posted' = Queue(posted, LeftDownPosts)
    /\ CASE state = SELECT -> LeftDownSelect
         [] state = MOVE /\ Selected(select) -> LeftDownMove
         [] state = DRAW /\ Selected(select) -> LeftDownDraw
         [] OTHER -> UNCHANGED pressVars
    /\ UNCHANGED <<state, sheet_loaded, magnify, magnify_factor, sheet, sheet_pos, rows,
                   cols, select_preview, scale_rects, middle_down, pointer, middleIsDown,
                   gridEditable, disk, zoomLevel>>

\* -------------------------------------------------------- pointer: release
\* if hitbox.w <= 0 or hitbox.h <= 0
Degenerate(r) == r.w <= 0 \/ r.h <= 0

\* destinations[hitbox_select] can be read
Indexable == IsIntKey(hitbox_select) /\ InRange(destinations, hitbox_select[2])

\* Canvas.onLeftUp
OnLeftUp ==
    /\ leftIsDown
    /\ leftIsDown' = FALSE
    /\ pressState' = NoneName
    /\ pressSprites' = <<>>
    /\ IF state = DRAW /\ hitbox_select # None /\ Indexable
       THEN LET idx == hitbox_select[2]
            IN  /\ IF Degenerate(Get(destinations, idx))
                   THEN /\ destinations' = Delete(destinations, idx)
                        /\ UNCHANGED saved
                   ELSE /\ saved' = FALSE
                        /\ UNCHANGED destinations
                /\ hitbox_select' = None
       ELSE UNCHANGED <<destinations, saved, hitbox_select>>
    /\ UNCHANGED <<state, sheet_loaded, magnify, magnify_factor, sheet, sheet_pos, rows,
                   cols, select, select_position, select_preview, sprites, sprite_names,
                   n_hitboxes_created, hitbox_buffer, scale_select, scale_rects,
                   left_down, middle_down, pointer, middleIsDown, gridEditable, disk,
                   zoomLevel, issued, posted>>

\* --------------------------------------------------------- pointer: motion
motionVars == <<select_preview, hitbox_buffer, destinations, saved, sheet_pos, middle_down>>

\* onMotion, left button held with a hitbox selected, state MOVE: the
\* rectangle read from destinations is a copy (Rects.__getitem__); Scale and
\* the move assign to the copy only
MotionMove(p) ==
    IF scale_select # NoneName
    THEN LET dx == FloorDivFactor(p[1] - hitbox_buffer[1], magnify_factor)
             dy == FloorDivFactor(p[2] - hitbox_buffer[2], magnify_factor)
         IN  /\ hitbox_buffer' = Point(IF dx # 0 THEN p[1] ELSE hitbox_buffer[1],
                                       IF dy # 0 THEN p[2] ELSE hitbox_buffer[2])
             /\ saved' = IF dx # 0 \/ dy # 0 THEN FALSE ELSE saved
             /\ UNCHANGED <<destinations, sheet_pos, middle_down>>
    ELSE LET dx == FloorDivFactor(p[1] - left_down[1], magnify_factor)
             dy == FloorDivFactor(p[2] - left_down[2], magnify_factor)
         IN  /\ saved' = IF dx # 0 \/ dy # 0 THEN FALSE ELSE saved
             /\ UNCHANGED <<hitbox_buffer, destinations, sheet_pos, middle_down>>

\* onMotion, left button held with a hitbox selected, state DRAW
MotionDraw(p) ==
    LET dx == p[1] - left_down[1]
        dy == p[2] - left_down[2]
        r == Rect(FloorDivFactor(Min(p[1], left_down[1]) - sheet_pos.x, magnify_factor),
                  FloorDivFactor(Min(p[2], left_down[2]) - sheet_pos.y, magnify_factor),
                  FloorDivFactor(Abs(dx), magnify_factor),
                  FloorDivFactor(Abs(dy), magnify_factor))
    IN  IF dx # 0 \/ dy # 0
        THEN /\ destinations' = SetRect(destinations, hitbox_select[2], r)
             /\ saved' = FALSE
             /\ UNCHANGED <<hitbox_buffer, sheet_pos, middle_down>>
        ELSE UNCHANGED <<hitbox_buffer, destinations, saved, sheet_pos, middle_down>>

\* the pan step measured from the press point instead of the previous sample
MotionPanFromPress(p) ==
    /\ sheet_pos' = [sheet_pos EXCEPT !.x = @ + (p[1] - middle_down[1]),
                                      !.y = @ + (p[2] - middle_down[2])]
    /\ middle_down' = middle_down
    /\ UNCHANGED <<hitbox_buffer, destinations, saved>>

\* onMotion, middle button held
MotionPan(p) ==
    /\ sheet_pos' = [sheet_pos EXCEPT !.x = @ + (p[1] - middle_down[1]),
                                      !.y = @ + (p[2] - middle_down[2])]
    /\ middle_down' = p
    /\ UNCHANGED <<hitbox_buffer, destinations, saved>>

\* the events onMotion posts to the host when the pointer moves to p: the
\* hitbox event, from the two MOVE branches only
MotionPosts(p) ==
    IF /\ leftIsDown /\ hitbox_select # None /\ Indexable /\ state = MOVE
       /\ LET a == IF scale_select # NoneName THEN hitbox_buffer ELSE left_down
          IN  \/ FloorDivFactor(p[1] - a[1], magnify_factor) # 0
              \/ FloorDivFactor(p[2] - a[2], magnify_factor) # 0
    THEN {"hitbox"} ELSE {}

\* Canvas.onMotion; maxPan bounds the pan offset a drag may reach
OnMotion(p, maxPan) ==
    /\ p # pointer
    /\ pointer' = p
    /\ IF state = SELECT /\ ZoneRaises THEN UNCHANGED motionVars
       ELSE /\ select_preview' = IF state = SELECT THEN FindSelectionZone(p[1], p[2])
                                 ELSE select_preview
            /\ IF leftIsDown /\ hitbox_select # None
               THEN IF ~Indexable THEN UNCHANGED <<hitbox_buffer, destinations, saved,
                                                   sheet_pos, middle_down>>
                    ELSE CASE state = MOVE -> MotionMove(p)
                           [] state = DRAW -> MotionDraw(p)
                           [] OTHER -> UNCHANGED <<hitbox_buffer, destinations, saved,
                                                    sheet_pos, middle_down>>
               ELSE IF middleIsDown
                    THEN /\ Abs(sheet_pos.x + p[1] - middle_down[1]) <= maxPan
                         /\ Abs(sheet_pos.y + p[2] - middle_down[2]) <= maxPan
                         /\ MotionPan(p)
                    ELSE UNCHANGED <<hitbox_buffer, destinations, saved, sheet_pos,
                                     middle_down>>
    /\ UNCHANGED <<state, sheet_loaded, magnify, magnify_factor, sheet, rows, cols, select,
                   select_position, sprites, sprite_names, n_hitboxes_created,
                   hitbox_select, scale_select, scale_rects, left_down, leftIsDown,
                   middleIsDown, gridEditable, disk, zoomLevel, issued, pressState,
                   pressSprites>>
    /\ posted' = Queue(posted, MotionPosts(p))

\* Canvas.onMiddleDown
OnMiddleDown ==
    /\ ~middleIsDown
    /\ middleIsDown' = TRUE
    /\ middle_down' = pointer
    /\ UNCHANGED <<state, sheet_loaded, saved, magnify, magnify_factor, sheet, sheet_pos,
                   rows, cols, select, select_position, select_preview, sprites,
                   sprite_names, destinations, n_hitboxes_created, hitbox_buffer,
                   hitbox_select, scale_select, scale_rects, left_down, pointer,
                   leftIsDown, gridEditable, disk, histVars>>

\* the middle button is released (no handler is bound to it)
MiddleUp ==
    /\ middleIsDown
    /\ middleIsDown' = FALSE
    /\ UNCHANGED <<canvasVars, pointer, leftIsDown, gridEditable, disk, histVars>>

\* ------------------------------------------------------------------ wheel
\* the step that skips 0 and lands on -1
WheelMagnifySkipZero(m, rot) ==
    IF rot = 0 THEN m ELSE IF m + rot = 0 THEN m + 2 * rot ELSE m + rot

\* the new value of magnify for a wheel rotation of sign rot
WheelMagnify(m, rot) ==
    IF rot > 0 THEN (IF m + 1 = -1 THEN m + 3 ELSE m + 1)
    ELSE IF rot < 0 THEN (IF m - 1 = 0 THEN m - 3 ELSE m - 1)
    ELSE m

\* Canvas.onMouseWheel at the pointer; maxZoom bounds the zoom level and
\* maxPan the pan offset the step may reach
OnMouseWheel(rot, maxZoom, maxPan) ==
    /\ Abs(zoomLevel + rot) <= maxZoom
    /\ IF ~sheet_loaded THEN UNCHANGED <<magnify, magnify_factor, sheet_pos, zoomLevel>>
       ELSE LET m == WheelMagnify(magnify, rot)
                f == Power(m)
                x == ZoomPan(pointer[1], sheet_pos.x, magnify_factor, f)
                y == ZoomPan(pointer[2], sheet_pos.y, magnify_factor, f)
            IN  /\ Abs(x) <= maxPan
                /\ Abs(y) <= maxPan
                /\ magnify' = m
                /\ magnify_factor' = f
                /\ sheet_pos' = Rect(x, y, Trunc(sheet[1] * f[1], f[2]),
                                     Trunc(sheet[2] * f[1], f[2]))
                /\ zoomLevel' = zoomLevel + rot
    /\ UNCHANGED <<state, sheet_loaded, saved, sheet, rows, cols, select, select_position,
                   select_preview, sprites, sprite_names, destinations,
                   n_hitboxes_created, hitbox_buffer, hitbox_select, scale_select,
                   scale_rects, left_down, middle_down, envVars, issued, pressState,
                   pressSprites, posted>>

\* --------------------------------------------------------------- keyboard
Keys == {"DELETE", "LEFT", "UP", "RIGHT", "DOWN", "OTHER"}

\* hitbox.x -= 1 and the like
KeyMove(r, key) ==
    CASE key = "LEFT" -> [r EXCEPT !.x = @ - 1]
      [] key = "UP" -> [r EXCEPT !.y = @ - 1]
      [] key = "RIGHT" -> [r EXCEPT !.x = @ + 1]
      [] key = "DOWN" -> [r EXCEPT !.y = @ + 1]
      [] OTHER -> r

\* Canvas.onKeyDown; maxDoc bounds the coordinates an arrow key may reach
OnKeyDown(key, maxDoc) ==
    /\ ~(state # MOVE /\ hitbox_select = None)
    /\ IF ~HasSprite(select) THEN UNCHANGED <<sprites, destinations, hitbox_select, saved>>
       ELSE LET hs == sprites[select].hitboxes
                i == Position(hs, hitbox_select)
            IN  IF i = 0 \/ ~Resolvable(hs[i])
                THEN UNCHANGED <<sprites, destinations, hitbox_select, saved>>
                ELSE LET r == KeyMove(HitboxRect(hs[i]), key)
                     IN  /\ Abs(r.x) <= Max(maxDoc, Abs(HitboxRect(hs[i]).x))
                         /\ Abs(r.y) <= Max(maxDoc, Abs(HitboxRect(hs[i]).y))
                         /\ saved' = FALSE
                         /\ IF key = "DELETE"
                            THEN /\ sprites' = [sprites EXCEPT ![select].hitboxes =
                                                    DelEntry(@, hitbox_select)]
                                 /\ hitbox_select' = None
                                 /\ UNCHANGED destinations
                            ELSE /\ UNCHANGED hitbox_select
                                 /\ IF hs[i].idx = -1
                                    THEN /\ sprites' = [sprites EXCEPT
                                                ![select].hitboxes[i].rect = r]
                                         /\ UNCHANGED destinations
                                    ELSE /\ destinations' = SetRect(destinations, hs[i].idx, r)
                                         /\ UNCHANGED sprites
    /\ UNCHANGED <<state, sheet_loaded, magnify, magnify_factor, sheet, sheet_pos, rows,
                   cols, select, select_position, select_preview, sprite_names,
                   n_hitboxes_created, hitbox_buffer, scale_select, scale_rects,
                   left_down, middle_down, envVars, histVars>>

\* ------------------------------------------------------------------ tools
toolFrame == <<sheet_loaded, saved, magnify, magnify_factor, sheet, sheet_pos, rows, cols,
               select, select_position, sprites, sprite_names, destinations,
               n_hitboxes_created, hitbox_buffer, scale_select, scale_rects, left_down,
               middle_down, pointer, leftIsDown, middleIsDown, disk, histVars>>

\* Frame.onToolSelect
OnToolSelect ==
    /\ state' = SELECT
    /\ hitbox_select' = None
    /\ gridEditable' = TRUE
    /\ UNCHANGED select_preview
    /\ UNCHANGED toolFrame

\* Frame.onToolMove
OnToolMove ==
    /\ state' = MOVE
    /\ hitbox_select' = None
    /\ select_preview' = ZeroRect
    /\ gridEditable' = FALSE
    /\ UNCHANGED toolFrame

\* Frame.onToolDraw
OnToolDraw ==
    /\ state' = DRAW
    /\ hitbox_select' = None
    /\ select_preview' = ZeroRect
    /\ gridEditable' = FALSE
    /\ UNCHANGED toolFrame

\* Frame.onSpritesheetProperties: the text of the inspector's two fields
OnSpritesheetProperties(r, c) ==
    /\ gridEditable
    /\ rows' = r
    /\ cols' = c
    /\ saved' = FALSE
    /\ UNCHANGED <<state, sheet_loaded, magnify, magnify_factor, sheet, sheet_pos, select,
                   select_position, select_preview, sprites, sprite_names, destinations,
                   n_hitboxes_created, hitbox_buffer, hitbox_select, scale_select,
                   scale_rects, left_down, middle_down, envVars, histVars>>

\* ------------------------------------------------------------------ paint
\* PaintRulers raises on a zero step (ZeroDivisionError, range() arg 3)
PaintRulersRaises ==
    rows = 0 \/ cols = 0 \/ sheet_pos.h \div rows = 0 \/ sheet_pos.w \div cols = 0

\* PaintHitboxes raises at a stored value that does not index destinations
PaintHitboxesRaises ==
    \E k \in DOMAIN sprites : \E i \in 1..Len(sprites[k].hitboxes) :
        ~InRange(destinations, sprites[k].hitboxes[i].idx)

\* Canvas.onPaintCanvas: what painting assigns is the pins (PaintScale)
OnPaintCanvas ==
    /\ ~(sheet_loaded /\ PaintRulersRaises)
    /\ ~PaintHitboxesRaises
    /\ state = MOVE /\ hitbox_select # None
    /\ HasSprite(select)
    /\ LET hs == sprites[select].hitboxes
           i == Position(hs, hitbox_select)
       IN  /\ i # 0
           /\ Resolvable(hs[i])
           /\ scale_rects' = ScaleRectsSet(HitboxRect(hs[i]), scale_radius)
    /\ scale_rects' # scale_rects
    /\ UNCHANGED <<state, sheet_loaded, saved, magnify, magnify_factor, sheet, sheet_pos,
                   rows, cols, select, select_position, select_preview, sprites,
                   sprite_names, destinations, n_hitboxes_created, hitbox_buffer,
                   hitbox_select, scale_select, left_down, middle_down, envVars, histVars>>

\* ------------------------------------------------------------------ files
\* sprite.label: the label given at load, else the name derived from the key
Label(k) == IF sprites[k].label = NoLabel THEN DefaultName(k) ELSE sprites[k].label

\* json.dump writes an integer key as its decimal string
JsonKey(key) == StrKey(key[2])

\* the "hitboxes" object SavePXT builds for one sprite: key -> rectangle, a
\* later entry replacing an earlier one with the same JSON key
RECURSIVE JsonHitboxes(_)
JsonHitboxes(hs) ==
    IF hs = <<>> THEN <<>>
    ELSE LET e == hs[Len(hs)]
             rest == JsonHitboxes(SubSeq(hs, 1, Len(hs) - 1))
             rec == [key |-> JsonKey(e.key), rect |-> HitboxRect(e)]
             dup == {i \in 1..Len(rest) : rest[i].key = rec.key}
         IN  IF dup = {} THEN Append(rest, rec)
             ELSE [rest EXCEPT ![CHOOSE i \in dup : TRUE] = rec]

\* SavePXT raises when a stored hitbox cannot be read as a rectangle
SaveRaises ==
    \E k \in DOMAIN sprites : \E i \in 1..Len(sprites[k].hitboxes) :
        ~Resolvable(sprites[k].hitboxes[i])

\* the archive SavePXT writes: image size, data.json
Archive ==
    [sheet |-> sheet, rows |-> rows, cols |-> cols,
     sprites |-> [l \in {Label(k) : k \in DOMAIN sprites} |->
                    LET k == CHOOSE j \in DOMAIN sprites : Label(j) = l
                    IN  [sprite_key |-> k, hitboxes |-> JsonHitboxes(sprites[k].hitboxes)]]]

\* Frame.Save -> Canvas.SavePXT
Save ==
    /\ sheet_loaded
    /\ Len(disk) < MaxSaves
    /\ ~SaveRaises
    /\ disk' = Append(disk, Archive)
    /\ saved' = TRUE
    /\ UNCHANGED <<state, sheet_loaded, magnify, magnify_factor, sheet, sheet_pos, rows,
                   cols, select, select_position, select_preview, sprites, sprite_names,
                   destinations, n_hitboxes_created, hitbox_buffer, hitbox_select,
                   scale_select, scale_rects, left_down, middle_down, pointer, leftIsDown,
                   middleIsDown, gridEditable, histVars>>

\* Canvas.LoadImage of an image of the given size
LoadImage(size) ==
    /\ sheet' = size
    /\ sheet_pos' = Rect(0, 0, size[1], size[2])
    /\ magnify' = 1
    /\ magnify_factor' = <<1, 1>>
    /\ sheet_loaded' = TRUE
    /\ saved' = FALSE
    /\ zoomLevel' = 0

loadFrame == <<state, select, select_position, select_preview, sprite_names, destinations,
               n_hitboxes_created, hitbox_buffer, hitbox_select, scale_select,
               scale_rects, left_down, middle_down, pointer, leftIsDown, middleIsDown,
               disk, issued, pressState, pressSprites, posted>>

\* Frame.onFileMenuNew
OnFileMenuNew(size) ==
    /\ LoadImage(size)
    /\ gridEditable' = TRUE
    /\ UNCHANGED <<rows, cols, sprites>>
    /\ UNCHANGED loadFrame

\* the sprites LoadPXT builds from data.json
LoadedSprites(a) ==
    LET keys == {a.sprites[l].sprite_key : l \in DOMAIN a.sprites}
    IN  [k \in keys |->
            LET l == CHOOSE m \in DOMAIN a.sprites : a.sprites[m].sprite_key = k
                js == a.sprites[l].hitboxes
            IN  [label |-> l,
                 hitboxes |-> [i \in 1..Len(js) |-> Entry(js[i].key, -1, js[i].rect)]]]

\* Frame.onFileMenuOpen -> Canvas.LoadPXT of the archive on disk
OnFileMenuOpen ==
    /\ disk # <<>>
    /\ LoadImage(disk[Len(disk)].sheet)
    /\ rows' = disk[Len(disk)].rows
    /\ cols' = disk[Len(disk)].cols
    /\ sprites' = LoadedSprites(disk[Len(disk)])
    /\ gridEditable' = TRUE
    /\ UNCHANGED loadFrame

\* ------------------------------------------------------- the editing session
\* pointer positions in view space: on the diagonal of the sheet, and one to
\* the left of the sheet at the height of its first row
Positions == {<<i, i>> : i \in 0..MaxCoord} \cup {<<-1, 0>>}
SheetSizes == {<<MaxSheet, MaxSheet>>}
GridCounts == 1..MaxGrid

\* the handlers every session has: the pointer, the SELECT and DRAW tools,
\* a new image
Editing ==
    \/ OnLeftDown
    \/ OnLeftUp
    \/ \E p \in Positions : OnMotion(p, MaxPan)
    \/ OnToolSelect
    \/ OnToolDraw
    \/ \E size \in SheetSizes : OnFileMenuNew(size)

\* one cell: drawing, and the MOVE tool with the delete key
Next ==
    \/ Editing
    \/ OnToolMove
    \/ \E key \in {"DELETE", "OTHER"} : OnKeyDown(key, MaxDoc)
    \/ OnPaintCanvas

Spec == Init /\ [][Next]_vars

\* several cells: the inspector sets the number of columns
NextCells ==
    \/ Editing
    \/ \E c \in GridCounts : OnSpritesheetProperties(1, c)

SpecCells == Init /\ [][NextCells]_vars

\* saving and opening archives
NextFile ==
    \/ Editing
    \/ Save
    \/ OnFileMenuOpen

SpecFile == Init /\ [][NextFile]_vars

\* ----------------------------------------------------- registry properties
\* a rectangle that may be persisted and rendered
Valid(r) == r.w > 0 /\ r.h > 0

\* the rectangles stored in the registry
StoredRects ==
    UNION {{HitboxRect(sprites[k].hitboxes[i]) :
                i \in {j \in 1..Len(sprites[k].hitboxes) :
                            Resolvable(sprites[k].hitboxes[j])}} :
            k \in DOMAIN sprites}

\* the rectangles of the hitbox records in the archives written
WrittenRects ==
    UNION {UNION {{disk[a].sprites[l].hitboxes[i].rect :
                        i \in 1..Len(disk[a].sprites[l].hitboxes)} :
                    l \in DOMAIN disk[a].sprites} :
            a \in 1..Len(disk)}

\* C1: whenever no left-button drag is in progress, every hitbox stored in the
\* registry has w > 0 and h > 0, and SavePXT never writes a hitbox record
\* with w <= 0 or h <= 0.
C1_NoInvalidHitbox ==
    /\ ~leftIsDown => \A r \in StoredRects : Valid(r)
    /\ \A r \in WrittenRects : Valid(r)

\* the hitbox keys of sprite k in registry reg
KeysOf(reg, k) == {reg[k].hitboxes[i].key : i \in 1..Len(reg[k].hitboxes)}

\* C2: a DRAW-mode press ... release with a sprite selected whose release
\* position equals its press position adds no hitbox entry to any sprite.
C2_ZeroNetDrawAddsNothing ==
    [][(/\ leftIsDown /\ ~leftIsDown'
        /\ pressState = DRAW /\ state = DRAW /\ select # NoneKey
        /\ pointer = left_down)
       => \A k \in DOMAIN sprites' :
            /\ k \in DOMAIN pressSprites
            /\ KeysOf(sprites', k) \subseteq KeysOf(pressSprites, k)]_vars

\* C3: hitbox ids are never reused: the id given to each newly created hitbox
\* is strictly greater than every id given before it, the counter
\* n_hitboxes_created stays above every id given, and every drawn hitbox in
\* the registry carries an id that was given.
C3_IdsNeverReused ==
    /\ \A i \in 1..Len(issued) : \A j \in 1..Len(issued) : i < j => issued[i] < issued[j]
    /\ \A i \in 1..Len(issued) : issued[i] < n_hitboxes_created
    /\ \A k \in DOMAIN sprites : \A key \in KeysOf(sprites, k) :
            IsIntKey(key) => \E i \in 1..Len(issued) : issued[i] = key[2]

\* C3 witness: id 0, the most recently created, was deleted with the delete
\* key, and the DRAW press that followed gave id 1
C3_Witness ==
    /\ issued = <<0, 1>>
    /\ leftIsDown /\ pressState = DRAW
    /\ hitbox_select = IntKey(1)
    /\ HasSprite(select)
    /\ KeysOf(sprites, select) = {IntKey(1)}

\* C4: hitbox_select is None or a key of the hitbox map of the currently
\* selected sprite (then select is not None and is a key of sprites).
C4_SelectedHitboxExists ==
    hitbox_select # None =>
        /\ select # NoneKey
        /\ HasSprite(select)
        /\ hitbox_select \in KeysOf(sprites, select)

\* the document point under the pointer lies outside the sheet in some axis
OutsideSheet ==
    \/ DocX(pointer[1]) < 0 \/ DocX(pointer[1]) >= sheet[1]
    \/ DocY(pointer[2]) < 0 \/ DocY(pointer[2]) >= sheet[2]

\* C7: a SELECT-mode press whose document point lies outside the sheet in
\* either axis sets select to None and adds no entry to sprites or
\* sprite_names.
C7_OutsideClickSelectsNothing ==
    [][(/\ ~leftIsDown /\ leftIsDown'
        /\ state = SELECT /\ sheet_loaded /\ ~ZoneRaises
        /\ OutsideSheet)
       => /\ select' = NoneKey
          /\ DOMAIN sprites' = DOMAIN sprites
          /\ DOMAIN sprite_names' = DOMAIN sprite_names]_vars

\* ------------------------------------------------------------ grid lookups
\* images of every size near MaxSide, every grid up to MaxCount, the pointer
\* over the sheet and one pixel around it
GridSheetSizes == ((MaxSide - 2)..MaxSide) \X ((MaxSide - 2)..MaxSide)
GridPositions == (-1..MaxSide) \X (-1..MaxSide)

NextGrid ==
    \/ \E size \in GridSheetSizes : OnFileMenuNew(size)
    \/ OnToolSelect
    \/ \E r \in 1..MaxCount, c \in 1..MaxCount : OnSpritesheetProperties(r, c)
    \/ \E p \in GridPositions : OnMotion(p, 0)

SpecGrid == Init /\ [][NextGrid]_vars

\* C5: for rows >= 1 and cols >= 1, FindSelectionZone maps every document
\* point of the sheet to one cell rectangle with w > 0 and h > 0 that contains
\* it (half-open intervals), and every point outside the sheet to the no-cell
\* result (a width or a height of 0); sheets whose side is not divisible by
\* the count included.
C5_PartitionCoversSheet ==
    (sheet_loaded /\ ~ZoneRaises) =>
        \A p \in GridPositions :
            LET x == DocX(p[1])
                y == DocY(p[2])
                z == FindSelectionZone(p[1], p[2])
            IN  IF 0 <= x /\ x < sheet[1] /\ 0 <= y /\ y < sheet[2]
                THEN /\ Valid(z)
                     /\ z.x <= x /\ x < z.x + z.w
                     /\ z.y <= y /\ y < z.y + z.h
                ELSE z.w = 0 \/ z.h = 0

\* C6: for rows >= 1 and cols >= 1, the rulers of FindSelectionZone are
\* exactly cols + 1 vertical and rows + 1 horizontal boundaries, the first 0
\* and the last the sheet's width (resp. height).
C6_RulersSpanSheet ==
    (sheet_loaded /\ ~ZoneRaises) =>
        /\ Len(VRulers) = cols + 1
        /\ VRulers[1] = 0 /\ VRulers[Len(VRulers)] = sheet[1]
        /\ Len(HRulers) = rows + 1
        /\ HRulers[1] = 0 /\ HRulers[Len(HRulers)] = sheet[2]

\* ------------------------------------------------------------ pan and zoom
ViewPositions == (-1..MaxCoord) \X (-1..MaxCoord)
DocPoints == -MaxPoint..MaxPoint

NextView ==
    \/ \E size \in SheetSizes : OnFileMenuNew(size)
    \/ \E rot \in {-1, 1} : OnMouseWheel(rot, MaxZoom, MaxPan)
    \/ OnMiddleDown
    \/ MiddleUp
    \/ \E p \in ViewPositions : OnMotion(p, MaxPan)

SpecView == Init /\ [][NextView]_vars

\* viewToDocument(documentToView(p)) on one axis, at pan offset pan
RoundTrip(pan, p) == FloorDivFactor(ViewOf(pan, p, magnify_factor) - pan, magnify_factor)

\* C8 as claimed: the round trip is exact at magnification 1 and within one
\* document pixel per axis at every other magnification.
C8_RoundTripWithinOne ==
    sheet_loaded =>
        \A p \in DocPoints : \A pan \in {sheet_pos.x, sheet_pos.y} :
            /\ magnify_factor = <<1, 1>> => RoundTrip(pan, p) = p
            /\ Abs(RoundTrip(pan, p) - p) <= 1

\* C8 as amended: at every pan offset and every magnification the wheel
\* reaches, the round trip is exact when the magnification is an integer
\* (>= 1) and differs from p by at most n document pixels per axis when the
\* magnification is 1/n.
C8_RoundTripWithinFactor ==
    sheet_loaded =>
        \A p \in DocPoints : \A pan \in {sheet_pos.x, sheet_pos.y} :
            /\ magnify_factor[2] = 1 => RoundTrip(pan, p) = p
            /\ Abs(RoundTrip(pan, p) - p) <= magnify_factor[2]

\* C8 witness: zoomed out to 1/3 and panned
C8_Witness ==
    sheet_loaded /\ magnify_factor = <<1, 3>> /\ sheet_pos.x # 0 /\ sheet_pos.y # 0

\* a wheel step
WheelStep == \E rot \in {-1, 1} : OnMouseWheel(rot, MaxZoom, MaxPan)

FactorOfLevel(k) == IF k >= 0 THEN <<k + 1, 1>> ELSE <<1, 1 - k>>

\* C10: with k the zoom-in steps minus the zoom-out steps since the image was
\* loaded, the magnification factor is 1 for k = 0, k + 1 for k > 0 and
\* 1/(1 + |k|) for k < 0; it is positive in every state.
C10_FactorFollowsLevel ==
    /\ magnify_factor[1] > 0 /\ magnify_factor[2] > 0
    /\ sheet_loaded => magnify_factor = FactorOfLevel(zoomLevel)

\* C10 witness: one step out from the loaded image, magnify having passed
\* over 0 and -1
C10_Witness ==
    sheet_loaded /\ zoomLevel = -1 /\ magnify = -2 /\ magnify_factor = <<1, 2>>

\* ------------------------------------------------------------ pan session
\* editing and panning, one button gesture at a time: the left button is not
\* pressed during a middle-button drag, nor the middle button during a
\* left-button drag, and a pan starts over a loaded image
PanZoom == 1
PanReach == 1
PanPositions == {<<i, i>> : i \in 0..PanReach}

NextPan ==
    \/ (~middleIsDown /\ OnLeftDown)
    \/ OnLeftUp
    \/ \E p \in PanPositions : OnMotion(p, PanReach)
    \/ OnToolSelect
    \/ OnToolDraw
    \/ \E size \in SheetSizes : OnFileMenuNew(size)
    \/ (sheet_loaded /\ ~leftIsDown /\ OnMiddleDown)
    \/ MiddleUp
    \/ \E rot \in {-1, 1} : OnMouseWheel(rot, PanZoom, PanReach)
SpecPan == Init /\ [][NextPan]_vars

RectSpan == 3
MaxDelta == 2
Deltas == -MaxDelta..MaxDelta
Directions == {Scales[i] : i \in 1..8}

InitRect ==
    /\ state = NoneName /\ sheet_loaded = FALSE /\ saved = TRUE
    /\ magnify = 1 /\ magnify_factor = <<1, 1>>
    /\ sheet = <<0, 0>> /\ sheet_pos = ZeroRect /\ rows = 1 /\ cols = 1
    /\ select = NoneKey
    /\ select_position \in {Rect(x, y, w, h) : x \in 0..MaxCoord, y \in 0..MaxCoord,
                                                w \in 0..MaxSheet, h \in 0..MaxSheet}
    /\ select_preview = ZeroRect
    /\ sprites = <<>> /\ sprite_names = <<>> /\ destinations = <<>>
    /\ n_hitboxes_created = 0 /\ hitbox_buffer = Point(0, 0) /\ hitbox_select = None
    /\ scale_select = NoneName /\ scale_rects = InitScaleRects
    /\ left_down = Point(0, 0) /\ middle_down = Point(0, 0)
    /\ pointer = Point(0, 0) /\ leftIsDown = FALSE /\ middleIsDown = FALSE
    /\ gridEditable = FALSE /\ disk = <<>>
    /\ zoomLevel = 0 /\ issued = <<>> /\ pressState = NoneName /\ pressSprites = <<>>
    /\ posted = Untracked

InSpan(r) == Abs(r.x) <= RectSpan /\ Abs(r.y) <= RectSpan
             /\ Abs(r.w) <= RectSpan /\ Abs(r.h) <= RectSpan

\* rect.scale(scale, dx, dy)
ScaleStep(scale, dx, dy) ==
    /\ InSpan(Scale(select_position, scale, dx, dy))
    /\ select_position' = Scale(select_position, scale, dx, dy)
    /\ UNCHANGED <<state, sheet_loaded, saved, magnify, magnify_factor, sheet, sheet_pos,
                   rows, cols, select, select_preview, sprites, sprite_names,
                   destinations, n_hitboxes_created, hitbox_buffer, hitbox_select,
                   scale_select, scale_rects, left_down, middle_down, envVars, histVars>>

NextRect == \E scale \in Directions : \E dx \in Deltas : \E dy \in Deltas :
                ScaleStep(scale, dx, dy)
SpecRect == InitRect /\ [][NextRect]_vars

\* C12: Rect.scale moves only the edges the direction names, for all eight
\* directions and all dx, dy: LEFT adds dx to x and subtracts it from w, TOP
\* adds dy to y and subtracts it from h, RIGHT adds dx to w, BOTTOM adds dy to
\* h, every other field is unchanged, and nothing is clamped.
C12_ScaleMovesNamedEdges ==
    \A scale \in Directions : \A dx \in Deltas : \A dy \in Deltas :
        LET r == select_position
            q == Scale(r, scale, dx, dy)
        IN  /\ q.x = (IF scale \in LeftScales THEN r.x + dx ELSE r.x)
            /\ q.y = (IF scale \in TopScales THEN r.y + dy ELSE r.y)
            /\ q.w = (IF scale \in LeftScales THEN r.w - dx
                      ELSE IF scale \in RightScales THEN r.w + dx ELSE r.w)
            /\ q.h = (IF scale \in TopScales THEN r.h - dy
                      ELSE IF scale \in BottomScales THEN r.h + dy ELSE r.h)
            /\ scale \in LeftScales => q.x + q.w = r.x + r.w
            /\ scale \in TopScales => q.y + q.h = r.y + r.h

\* C12 witness: scaling has driven the width and the height below zero
C12_Witness ==
    /\ select_position.w < 0 /\ select_position.h < 0
    /\ select_position.x > MaxCoord /\ select_position.y > MaxCoord

\* C13: for each of the eight directions and all dx, dy, scale(d, dx, dy)
\* followed by scale(d, -dx, -dy) restores (x, y, w, h) exactly.
C13_ScaleRoundTrip ==
    \A scale \in Directions : \A dx \in Deltas : \A dy \in Deltas :
        Scale(Scale(select_position, scale, dx, dy), scale, -dx, -dy) = select_position

\* C13 witness: a rectangle that scaling has made degenerate
C13_Witness ==
    /\ select_position.w = 0 /\ select_position.h < 0
    /\ select_position.x < 0

\* ------------------------------------------------------------- DRAW drag
\* a pointer-move of a DRAW drag: the left button is held since a DRAW press
\* and the rectangle being drawn is selected
DrawDragMove ==
    /\ leftIsDown /\ pressState = DRAW /\ state = DRAW
    /\ hitbox_select # None /\ Indexable
    /\ pointer' # pointer

\* C14: after every pointer-move of a DRAW drag the rectangle being drawn
\* spans from the anchor a = viewToDocument(press point) to
\* c = viewToDocument(current point): x = min(a.x, c.x), y = min(a.y, c.y),
\* w = |c.x - a.x|, h = |c.y - a.y|.
C14_DrawSpansAnchorToPointer ==
    [][DrawDragMove =>
        LET ax == DocX(left_down[1])'
            ay == DocY(left_down[2])'
            cx == DocX(pointer[1])'
            cy == DocY(pointer[2])'
        IN  Get(destinations', hitbox_select[2]) =
                Rect(Min(ax, cx), Min(ay, cy), Abs(cx - ax), Abs(cy - ay))]_vars

\* ------------------------------------------------------- modes and handles
\* a mode switch issued by the host
ToolSwitch == OnToolSelect \/ OnToolMove \/ OnToolDraw

\* C15: every mode switch (to SELECT, MOVE or DRAW) leaves hitbox_select None
\* and scale_select, the active handle, None.
C15_ModeSwitchClearsSelection ==
    [][ToolSwitch => (hitbox_select' = None /\ scale_select' = NoneName)]_vars

\* C18: after a pointer-up in MOVE mode scale_select is None and hitbox_select
\* is what it was before the release.
C18_ReleaseClearsHandleOnly ==
    [][(leftIsDown /\ ~leftIsDown' /\ state = MOVE)
       => (scale_select' = NoneName /\ hitbox_select' = hitbox_select)]_vars

\* editing in the three modes with a pointer that also leaves the sheet in
\* both axes, where a SELECT click clears the selection
ClearPositions == {<<i, i>> : i \in -1..MaxCoord}

NextClear ==
    \/ OnLeftDown
    \/ OnLeftUp
    \/ \E p \in ClearPositions : OnMotion(p, 0)
    \/ OnToolSelect
    \/ OnToolMove
    \/ OnToolDraw
    \/ \E size \in SheetSizes : OnFileMenuNew(size)
SpecClear == Init /\ [][NextClear]_vars

\* a pointer-down, pointer-move or pointer-up
PointerEvent == leftIsDown' # leftIsDown \/ pointer' # pointer

MovePress ==
    /\ ~leftIsDown /\ leftIsDown'
    /\ state = MOVE /\ select # NoneKey /\ HasSprite(select)

\* the press point lies in a resize handle of the hitbox already selected
InHandle ==
    /\ hitbox_select # None
    /\ SelectScale(scale_rects, Point(pointer[1] - sheet_pos.x,
                                      pointer[2] - sheet_pos.y)) # NoneName

\* the entries of the selected sprite whose rectangle contains the document
\* point under the pointer
Hits ==
    {i \in 1..Len(sprites[select].hitboxes) :
        /\ Resolvable(sprites[select].hitboxes[i])
        /\ Contains(HitboxRect(sprites[select].hitboxes[i]),
                    Point(DocX(pointer[1]), DocY(pointer[2])))}

\* C17: a MOVE pointer-down resolves in a fixed order: a click in a resize
\* handle of the hitbox already selected sets the active handle and keeps the
\* selected hitbox; only otherwise the hitboxes of the selected sprite are
\* hit-tested by document-space containment, the first match becomes selected
\* and its origin (x, y) is remembered in hitbox_buffer.
C17_MovePressOrder ==
    [][MovePress =>
        IF InHandle
        THEN /\ scale_select' = SelectScale(scale_rects, Point(pointer[1] - sheet_pos.x,
                                                               pointer[2] - sheet_pos.y))
             /\ hitbox_select' = hitbox_select
        ELSE IF Hits # {}
             THEN LET i == CHOOSE j \in Hits : \A k \in Hits : j <= k
                      e == sprites[select].hitboxes[i]
                  IN  /\ hitbox_select' = e.key
                      /\ hitbox_buffer' = Point(HitboxRect(e).x, HitboxRect(e).y)
             ELSE hitbox_select' = hitbox_select]_vars

\* ------------------------------------------------------------- MOVE drag
\* the hitbox hitbox_select names in the selected sprite can be read
HasSelectedRect ==
    /\ hitbox_select # None /\ HasSprite(select)
    /\ HasKey(sprites[select].hitboxes, hitbox_select)
    /\ Resolvable(sprites[select].hitboxes[Position(sprites[select].hitboxes,
                                                    hitbox_select)])

\* its rectangle
SelectedRect ==
    HitboxRect(sprites[select].hitboxes[Position(sprites[select].hitboxes, hitbox_select)])

\* a pointer-move of a MOVE drag with a hitbox selected and no handle active
MoveDragMove ==
    /\ leftIsDown /\ pressState = MOVE /\ state = MOVE
    /\ scale_select = NoneName /\ HasSelectedRect
    /\ pointer' # pointer

\* the offset floor((pointer - press point) / magnification) on one axis
DragOffset(p, a) == FloorDivFactor(p - a, magnify_factor)

\* C19: during a MOVE drag with a hitbox selected and no handle active, after
\* each pointer-move the selected hitbox is at its pointer-down position plus
\* floor((pointer - press point) / magnification) per axis, with w and h
\* unchanged: from one sample to the next its position changes by the change
\* of that offset (the offset is 0 at the press).
C19_MoveDragFollowsPointer ==
    [][MoveDragMove =>
        /\ SelectedRect'.x - SelectedRect.x =
              DragOffset(pointer'[1], left_down[1]) - DragOffset(pointer[1], left_down[1])
        /\ SelectedRect'.y - SelectedRect.y =
              DragOffset(pointer'[2], left_down[2]) - DragOffset(pointer[2], left_down[2])
        /\ SelectedRect'.w = SelectedRect.w
        /\ SelectedRect'.h = SelectedRect.h]_vars

\* ------------------------------------------------------------- keyboard
\* drawing, selecting in MOVE mode and the keys; the magnification is chosen
\* before the first cell is selected
KeyZoom == 1
KeyDoc == 1
KeyPositions == {<<i, i>> : i \in 0..MaxCoord}

NextKeys ==
    \/ OnLeftDown
    \/ OnLeftUp
    \/ \E p \in KeyPositions : OnMotion(p, 0)
    \/ OnToolSelect
    \/ OnToolDraw
    \/ OnToolMove
    \/ \E size \in SheetSizes : OnFileMenuNew(size)
    \/ \E key \in Keys : OnKeyDown(key, KeyDoc)
    \/ (select = NoneKey /\ OnMouseWheel(1, KeyZoom, MaxCoord))
SpecKeys == Init /\ [][NextKeys]_vars

\* the rectangle stored under key in sprite k (a zero rectangle when it cannot
\* be read)
RectByKey(k, key) ==
    LET e == sprites[k].hitboxes[Position(sprites[k].hitboxes, key)]
    IN  IF Resolvable(e) THEN HitboxRect(e) ELSE ZeroRect

\* every hitbox other than the selected one keeps its key and its rectangle
OthersKept ==
    /\ DOMAIN sprites' = DOMAIN sprites
    /\ \A k \in DOMAIN sprites : \A key \in KeysOf(sprites, k) :
          (k # select \/ key # hitbox_select) =>
              /\ key \in KeysOf(sprites', k)
              /\ RectByKey(k, key)' = RectByKey(k, key)

\* C20: in MOVE mode with a hitbox selected, an arrow key changes the selected
\* hitbox's x or y by exactly one document pixel in the key's direction (w, h
\* and every other hitbox unchanged, at every magnification), and the delete
\* key removes exactly the selected hitbox from the selected sprite and sets
\* hitbox_select to None.
C20_KeysNudgeAndDelete ==
    [][\A key \in {"DELETE", "LEFT", "UP", "RIGHT", "DOWN"} :
        (OnKeyDown(key, KeyDoc) /\ state = MOVE /\ HasSelectedRect) =>
            /\ OthersKept
            /\ IF key = "DELETE"
               THEN /\ hitbox_select' = None
                    /\ KeysOf(sprites', select) = KeysOf(sprites, select) \ {hitbox_select}
               ELSE /\ hitbox_select' = hitbox_select
                    /\ KeysOf(sprites', select) = KeysOf(sprites, select)
                    /\ SelectedRect'.w = SelectedRect.w /\ SelectedRect'.h = SelectedRect.h
                    /\ SelectedRect'.x - SelectedRect.x =
                          (IF key = "RIGHT" THEN 1 ELSE IF key = "LEFT" THEN -1 ELSE 0)
                    /\ SelectedRect'.y - SelectedRect.y =
                          (IF key = "DOWN" THEN 1 ELSE IF key = "UP" THEN -1 ELSE 0)]_vars

\* C21: a key press received when the mode is not MOVE, or when no hitbox is
\* selected, is ignored: it changes no hitbox, no selection and not the saved
\* flag.
C21_IgnoredKeyChangesNothing ==
    [][\A key \in Keys :
        (OnKeyDown(key, KeyDoc) /\ (state # MOVE \/ hitbox_select = None)) =>
            UNCHANGED <<sprites, destinations, select, hitbox_select, saved>>]_vars

\* ---------------------------------------------------------------- handles
PinSpan == 22
PinSides == {0, scale_radius, PinSpan - 1, PinSpan}
PinCoords == {-(scale_radius + 1), 0, PinSpan \div 2, PinSpan}
PinGrid == (-(scale_radius + 1))..(PinSpan + scale_radius + 2)

\* the handles of a bounded rectangle, as ScaleRects.set leaves them
InitPins ==
    /\ state = NoneName /\ sheet_loaded = FALSE /\ saved = TRUE
    /\ magnify = 1 /\ magnify_factor = <<1, 1>>
    /\ sheet = <<0, 0>> /\ sheet_pos = ZeroRect /\ rows = 1 /\ cols = 1
    /\ select = NoneKey /\ select_position = ZeroRect /\ select_preview = ZeroRect
    /\ sprites = <<>> /\ sprite_names = <<>> /\ destinations = <<>>
    /\ n_hitboxes_created = 0 /\ hitbox_buffer = Point(0, 0) /\ hitbox_select = None
    /\ scale_select = NoneName
    /\ scale_rects \in {ScaleRectsSet(Rect(x, y, w, h), scale_radius) :
                           x \in 0..MaxCoord, y \in 0..MaxCoord,
                           w \in PinSides, h \in PinSides}
    /\ left_down = Point(0, 0) /\ middle_down = Point(0, 0)
    /\ pointer = Point(0, 0) /\ leftIsDown = FALSE /\ middleIsDown = FALSE
    /\ gridEditable = FALSE /\ disk = <<>>
    /\ zoomLevel = 0 /\ issued = <<>> /\ pressState = NoneName /\ pressSprites = <<>>
    /\ posted = Untracked

\* scale_rects.select_scale(point)
SelectStep(p) ==
    /\ pointer' = p
    /\ scale_select' = SelectScale(scale_rects, p)
    /\ UNCHANGED <<state, sheet_loaded, saved, magnify, magnify_factor, sheet, sheet_pos,
                   rows, cols, select, select_position, select_preview, sprites,
                   sprite_names, destinations, n_hitboxes_created, hitbox_buffer,
                   hitbox_select, scale_rects, left_down, middle_down, leftIsDown,
                   middleIsDown, gridEditable, disk, histVars>>

NextPins == \E p \in PinCoords \X PinCoords : SelectStep(p)
SpecPins == InitPins /\ [][NextPins]_vars

\* no two handles share a point
PinsApart(rects) ==
    \A i \in 1..8 : \A j \in 1..8 :
        i # j => \/ rects[i].x + rects[i].w < rects[j].x
                 \/ rects[j].x + rects[j].w < rects[i].x
                 \/ rects[i].y + rects[i].h < rects[j].y
                 \/ rects[j].y + rects[j].h < rects[i].y

\* C22: handle selection returns, for every point p, the first handle in the
\* order TOP, LEFT, RIGHT, BOTTOM, TOP_LEFT, TOP_RIGHT, BOTTOM_LEFT,
\* BOTTOM_RIGHT whose square contains p under inclusive bounds, and None
\* exactly when no handle contains p; when the handles do not overlap, each of
\* the eight directions is returned for the centre point of its own handle.
C22_FirstContainingHandle ==
    /\ \A p \in PinGrid \X PinGrid :
          LET s == SelectScale(scale_rects, p)
              in(i) == /\ scale_rects[i].x <= p[1]
                       /\ p[1] <= scale_rects[i].x + scale_rects[i].w
                       /\ scale_rects[i].y <= p[2]
                       /\ p[2] <= scale_rects[i].y + scale_rects[i].h
          IN  /\ (s = NoneName) <=> (\A i \in 1..8 : ~in(i))
              /\ \A i \in 1..8 :
                    (in(i) /\ \A j \in 1..(i - 1) : ~in(j)) =>
                        s = <<"TOP", "LEFT", "RIGHT", "BOTTOM", "TOP_LEFT", "TOP_RIGHT",
                              "BOTTOM_LEFT", "BOTTOM_RIGHT">>[i]
    /\ PinsApart(scale_rects) =>
          \A i \in 1..8 : SelectScale(scale_rects, Centre(scale_rects[i])) = Scales[i]

\* C22 witness: the handles are apart and the centre of the last handle has
\* selected BOTTOM_RIGHT
C22_Witness ==
    /\ PinsApart(scale_rects)
    /\ pointer = Centre(scale_rects[8])
    /\ scale_select = "BOTTOM_RIGHT"

\* the MOVE tool with repaints, after an optional zoom step before a cell is
\* selected
HandleZoom == 1
NextHandles ==
    \/ OnLeftDown
    \/ OnLeftUp
    \/ \E p \in KeyPositions : OnMotion(p, 0)
    \/ OnToolSelect
    \/ OnToolDraw
    \/ OnToolMove
    \/ \E size \in SheetSizes : OnFileMenuNew(size)
    \/ OnPaintCanvas
    \/ (select = NoneKey /\ OnMouseWheel(1, HandleZoom, MaxCoord))
SpecHandles == Init /\ [][NextHandles]_vars

\* twice the document coordinates of the edge midpoint or corner that handle
\* i of rectangle r marks
PinAnchor2(r, i) ==
    Point(IF Scales[i] \in LeftScales THEN 2 * r.x
          ELSE IF Scales[i] \in RightScales THEN 2 * r.x + 2 * r.w ELSE 2 * r.x + r.w,
          IF Scales[i] \in TopScales THEN 2 * r.y
          ELSE IF Scales[i] \in BottomScales THEN 2 * r.y + 2 * r.h ELSE 2 * r.y + r.h)

\* handle i of the selected hitbox is a square of side 2 * scale_radius whose
\* centre lies within one pixel of the anchor's image under the magnification
\* (handles are kept relative to the pan offset)
HandleFresh(i) ==
    LET pin == scale_rects[i]
        a == PinAnchor2(SelectedRect, i)
        num == magnify_factor[1]
        den == magnify_factor[2]
    IN  /\ pin.w = 2 * scale_radius /\ pin.h = 2 * scale_radius
        /\ Abs(2 * den * (pin.x + scale_radius) - a[1] * num) < 2 * den
        /\ Abs(2 * den * (pin.y + scale_radius) - a[2] * num) < 2 * den

\* C23: whenever a MOVE pointer-down hit-tests the handles, each of the eight
\* handle rectangles is a square of view-space side 2 * scale_radius centred
\* on the view-space image, under the current pan and magnification, of the
\* corresponding edge midpoint or corner of the selected hitbox's current
\* rectangle.
C23_HandlesFollowHitbox ==
    [][(MovePress /\ HasSelectedRect) => \A i \in 1..8 : HandleFresh(i)]_vars

\* ---------------------------------------------------------------- archives
\* the program is closed and started again: Canvas.__init__ runs anew, the
\* archives on disk stay
Restart ==
    /\ state' = NoneName /\ sheet_loaded' = FALSE /\ saved' = TRUE
    /\ magnify' = 1 /\ magnify_factor' = <<1, 1>>
    /\ sheet' = <<0, 0>> /\ sheet_pos' = ZeroRect /\ rows' = 1 /\ cols' = 1
    /\ select' = NoneKey /\ select_position' = ZeroRect /\ select_preview' = ZeroRect
    /\ sprites' = <<>> /\ sprite_names' = <<>> /\ destinations' = <<>>
    /\ n_hitboxes_created' = 0 /\ hitbox_buffer' = Point(0, 0) /\ hitbox_select' = None
    /\ scale_select' = NoneName /\ scale_rects' = InitScaleRects
    /\ left_down' = Point(0, 0) /\ middle_down' = Point(0, 0)
    /\ pointer' = Point(0, 0) /\ leftIsDown' = FALSE /\ middleIsDown' = FALSE
    /\ gridEditable' = FALSE
    /\ zoomLevel' = 0 /\ issued' = <<>> /\ pressState' = NoneName /\ pressSprites' = <<>>
    /\ posted' = Queue(posted \cap Untracked, NoPosts)
    /\ UNCHANGED disk

ArchiveZoom == 1
NextArchive ==
    \/ OnLeftDown
    \/ OnLeftUp
    \/ \E p \in KeyPositions : OnMotion(p, 0)
    \/ OnToolSelect
    \/ OnToolDraw
    \/ \E size \in SheetSizes : OnFileMenuNew(size)
    \/ Save
    \/ OnFileMenuOpen
    \/ (disk # <<>> /\ Restart)
    \/ (select = NoneKey /\ OnMouseWheel(1, ArchiveZoom, MaxCoord))
SpecArchive == Init /\ [][NextArchive]_vars

\* what LoadPXT reads back from the archive SavePXT would write now
Reloaded == LoadedSprites(Archive)

\* the reloaded sprite k holds the hitbox ids of sprite k, as JSON writes them,
\* with the same rectangles
SameHitboxes(k) ==
    LET hs == sprites[k].hitboxes
        ls == Reloaded[k].hitboxes
    IN  /\ Cardinality(KeysOf(Reloaded, k)) = Cardinality(KeysOf(sprites, k))
        /\ \A i \in 1..Len(hs) :
              \E j \in 1..Len(ls) : /\ ls[j].key = JsonKey(hs[i].key)
                                    /\ ls[j].rect = HitboxRect(hs[i])

\* C24: SavePXT followed by LoadPXT yields a document with the same rows and
\* cols, the same sprite keys with the same labels, and for every sprite the
\* same hitbox ids mapped to the same rectangles in document space; and a
\* step that changes only the pan offset or the zoom level does not change
\* what a save writes.
C24_ArchiveRoundTrip ==
    /\ [](sheet_loaded /\ ~SaveRaises =>
            /\ Archive.rows = rows /\ Archive.cols = cols
            /\ DOMAIN Reloaded = DOMAIN sprites
            /\ \A k \in DOMAIN sprites : /\ Reloaded[k].label = Label(k)
                                         /\ SameHitboxes(k))
    /\ [][(~SaveRaises /\ UNCHANGED <<sheet, rows, cols, sprites, destinations>>) =>
            Archive' = Archive]_vars

\* ----------------------------------------------------- malformed archives
\* what may be wrong with the data of an archive: a hitbox record without its
\* "h" field, a hitbox record with a negative width, a sprite record without
\* its "sprite_key"
Defects == {"field", "negative", "no_key"}

\* LoadPXT of the archive on disk after one record of it has been damaged: the
\* image, rows and cols are assigned first, the registry is emptied, the sprite
\* records before the damaged one are loaded (none: the damaged record l is the
\* first of the file), and the loop raises at the missing field
OpenMalformed(defect) ==
    /\ disk # <<>>
    /\ LET a == disk[Len(disk)]
       IN  /\ \E l \in DOMAIN a.sprites :
                LET k == a.sprites[l].sprite_key
                    js == a.sprites[l].hitboxes
                    bad == [key |-> js[1].key, rect |-> [js[1].rect EXCEPT !.w = -1]]
                IN  CASE defect = "no_key" -> sprites' = <<>>
                      [] defect = "field" ->
                            /\ js # <<>>
                            /\ sprites' = (k :> [label |-> l, hitboxes |-> <<>>])
                      [] defect = "negative" ->
                            /\ js # <<>>
                            /\ sprites' = LoadedSprites(
                                   [a EXCEPT !.sprites[l].hitboxes[1] = bad])
           /\ LoadImage(a.sheet)
           /\ rows' = a.rows
           /\ cols' = a.cols
    /\ gridEditable' = IF defect = "negative" THEN TRUE ELSE gridEditable
    /\ UNCHANGED loadFrame

NextLoad ==
    \/ OnLeftDown
    \/ OnLeftUp
    \/ \E p \in KeyPositions : OnMotion(p, 0)
    \/ OnToolSelect
    \/ OnToolDraw
    \/ \E size \in SheetSizes : OnFileMenuNew(size)
    \/ Save
    \/ OnFileMenuOpen
    \/ \E defect \in Defects : OpenMalformed(defect)
SpecLoad == Init /\ [][NextLoad]_vars

\* C25: loading is all-or-nothing: when the archive data is malformed, LoadPXT
\* fails and the in-memory document (sheet, rows, cols, sprites) is exactly
\* what it was before the call.
C25_LoadAllOrNothing ==
    [][\A defect \in Defects :
          OpenMalformed(defect) => UNCHANGED <<sheet, rows, cols, sprites>>]_vars

\* ------------------------------------------------------------ failing save
\* Frame.Save -> Canvas.SavePXT when writing data.json raises IOError: the
\* error is logged, the archive is made of the image alone, saved is set
SaveDataFails ==
    /\ sheet_loaded
    /\ Len(disk) < MaxSaves
    /\ ~SaveRaises
    /\ disk' = Append(disk, [sheet |-> sheet])
    /\ saved' = TRUE
    /\ UNCHANGED <<state, sheet_loaded, magnify, magnify_factor, sheet, sheet_pos, rows,
                   cols, select, select_position, select_preview, sprites, sprite_names,
                   destinations, n_hitboxes_created, hitbox_buffer, hitbox_select,
                   scale_select, scale_rects, left_down, middle_down, pointer, leftIsDown,
                   middleIsDown, gridEditable, histVars>>

NextSave ==
    \/ OnLeftDown
    \/ OnLeftUp
    \/ \E p \in KeyPositions : OnMotion(p, 0)
    \/ OnToolSelect
    \/ OnToolDraw
    \/ \E size \in SheetSizes : OnFileMenuNew(size)
    \/ Save
    \/ SaveDataFails
SpecSave == Init /\ [][NextSave]_vars

\* C26: if writing the archive data fails during a save, the save is aborted
\* and the in-memory state is unchanged: in particular saved is not set to
\* True.
C26_FailedSaveKeepsState ==
    [][SaveDataFails => UNCHANGED canvasVars]_vars

\* ------------------------------------------------------------------ export
\* the data ExportJSON builds: per sprite label, one record per hitbox, in the
\* order of the sprite's hitboxes
ExportData ==
    [l \in {Label(k) : k \in DOMAIN sprites} |->
        LET k == CHOOSE j \in DOMAIN sprites : Label(j) = l
            hs == sprites[k].hitboxes
        IN  [i \in 1..Len(hs) |->
                [x |-> HitboxRect(hs[i]).x - select_position.x,
                 y |-> HitboxRect(hs[i]).y - select_position.y,
                 w |-> HitboxRect(hs[i]).w,
                 h |-> HitboxRect(hs[i]).h]]]

\* Frame.onFileMenuExportAs -> Canvas.ExportJSON: the file is written, the
\* canvas is left alone
OnFileMenuExportAs ==
    /\ Len(disk) < MaxSaves
    /\ ~SaveRaises
    /\ disk' = Append(disk, ExportData)
    /\ UNCHANGED <<canvasVars, pointer, leftIsDown, middleIsDown, gridEditable, histVars>>

NextExport ==
    \/ OnLeftDown
    \/ OnLeftUp
    \/ \E p \in KeyPositions : OnMotion(p, 0)
    \/ OnToolSelect
    \/ OnToolDraw
    \/ \E size \in SheetSizes : OnFileMenuNew(size)
    \/ \E c \in GridCounts : OnSpritesheetProperties(1, c)
    \/ OnFileMenuExportAs
SpecExport == Init /\ [][NextExport]_vars

\* C27: ExportJSON writes, for every sprite and every hitbox of it, x and y
\* equal to the hitbox's document coordinates minus the top-left corner of
\* that hitbox's own sprite cell, and w, h unchanged, whichever cell is
\* selected.
C27_ExportRelativeToOwnCell ==
    [][OnFileMenuExportAs =>
        \A k \in DOMAIN sprites : \A i \in 1..Len(sprites[k].hitboxes) :
            LET r == HitboxRect(sprites[k].hitboxes[i])
                out == disk'[Len(disk')][Label(k)][i]
            IN  /\ out.x = r.x - k[1]
                /\ out.y = r.y - k[2]
                /\ out.w = r.w
                /\ out.h = r.h]_vars

\* the step changes the rectangle of some hitbox
GeometryChanged ==
    \E k \in DOMAIN sprites : \E key \in KeysOf(sprites, k) :
        /\ k \in DOMAIN sprites' /\ key \in KeysOf(sprites', k)
        /\ RectByKey(k, key)' # RectByKey(k, key)

\* C28: every handler step that changes the geometry of a hitbox (DRAW resize
\* on pointer-move, MOVE translate, MOVE handle scale, arrow-key nudge) posts
\* a hitbox-updated notification in that same step, and a SELECT pointer-down
\* that selects a cell posts a sprite-selected notification.
C28_GeometryChangeNotifies ==
    [][/\ \A p \in KeyPositions :
              (OnMotion(p, 0) /\ GeometryChanged) => "hitbox" \in MotionPosts(p)
       /\ \A key \in Keys :
              (OnKeyDown(key, KeyDoc) /\ GeometryChanged) => "hitbox" \in KeyDownPosts
       /\ (OnLeftDown /\ state = SELECT /\ select' # NoneKey) =>
              "sprite" \in LeftDownPosts]_vars

\* ------------------------------------------------------ mode switch mid-drag
\* the hitbox keys sprite k has gained since the press
GainedKeys(k) ==
    KeysOf(sprites, k) \ (IF k \in DOMAIN pressSprites THEN KeysOf(pressSprites, k) ELSE {})

\* C29: switching modes in the middle of a DRAW drag leaves no zero-sized or
\* otherwise in-progress hitbox of the interrupted gesture in the registry
\* (what the gesture created is either a valid hitbox or gone), and a later
\* pointer-up in the new mode does not change the document.
C29_SwitchMidDragCommitsOrDiscards ==
    [][/\ (ToolSwitch /\ leftIsDown /\ pressState = DRAW) =>
              (\A k \in DOMAIN sprites : \A i \in 1..Len(sprites[k].hitboxes) :
                    sprites[k].hitboxes[i].key \in GainedKeys(k) =>
                        /\ Resolvable(sprites[k].hitboxes[i])
                        /\ Valid(HitboxRect(sprites[k].hitboxes[i])))'
       /\ (OnLeftUp /\ pressState = DRAW /\ state # DRAW) =>
              UNCHANGED <<sprites, destinations, rows, cols, sheet>>]_vars

\* ---------------------------------------------------------------- dirty flag
\* what an archive is written from
Persisted == <<sheet, rows, cols, sprites, destinations>>

\* what only the display depends on
ViewState == <<sheet_pos, magnify, magnify_factor, select_preview, scale_rects>>

\* C30: after any handler step that changes persisted content saved is False,
\* saved becomes True only through a save, and a step that changes only view
\* state never changes saved.
C30_DirtyFlagTracksDocument ==
    [][/\ Persisted' # Persisted => saved' = FALSE
       /\ (~saved /\ saved') => disk' # disk
       /\ (ViewState' # ViewState /\ UNCHANGED Persisted
             /\ UNCHANGED <<select, hitbox_select, hitbox_buffer, disk>>) =>
              saved' = saved]_vars

\* --------------------------------------------------------------- grid counts
\* the integers the inspector's text fields may carry: zero, the counts that
\* fit the sheet, and one more than the sheet has pixels
TypedCounts == 0..(MaxSheet + 1)

NextCounts ==
    \/ OnLeftDown
    \/ OnLeftUp
    \/ \E p \in KeyPositions : OnMotion(p, 0)
    \/ OnToolSelect
    \/ \E size \in SheetSizes : OnFileMenuNew(size)
    \/ \E c \in TypedCounts : OnSpritesheetProperties(1, c)
SpecCounts == Init /\ [][NextCounts]_vars

\* C31: in every reachable state rows >= 1 and cols >= 1, no count exceeds the
\* sheet dimension in pixels, and the grid lookup never divides by or steps by
\* zero: a set-grid command carrying such a count is rejected and leaves the
\* previous rows and cols in effect.
C31_GridCountsValid ==
    /\ rows >= 1 /\ cols >= 1
    /\ sheet_loaded => /\ rows <= sheet[2] /\ cols <= sheet[1]
                       /\ ~ZoneRaises

\* ------------------------------------------------------------ index integrity
\* the places <<sprite key, position>> of the registry that hold a column index
\* of destinations
IndexPlaces ==
    {<<k, i>> \in (DOMAIN sprites) \X (1..MaxHitboxes) :
        i <= Len(sprites[k].hitboxes) /\ sprites[k].hitboxes[i].idx # -1}

\* C32: every hitbox id stored in any sprite's map refers to an existing column
\* of destinations, no two hitbox ids refer to the same column, and every
\* column is owned by exactly one id of one sprite.
C32_IndexIntegrity ==
    /\ \A pl \in IndexPlaces : InRange(destinations, sprites[pl[1]].hitboxes[pl[2]].idx)
    /\ \A pl \in IndexPlaces : \A ql \in IndexPlaces :
          sprites[pl[1]].hitboxes[pl[2]].idx = sprites[ql[1]].hitboxes[ql[2]].idx => pl = ql
    /\ \A j \in 0..(Size(destinations) - 1) :
          \E pl \in IndexPlaces : sprites[pl[1]].hitboxes[pl[2]].idx = j

\* C33: in MOVE mode with a sprite selected and no hitbox selected, a
\* pointer-down whose document point lies inside some hitbox of the selected
\* sprite selects a hitbox; a handle remembered from an earlier gesture never
\* blocks the hit-test.
C33_HitboxesStaySelectable ==
    [][(MovePress /\ hitbox_select = None /\ Hits # {}) => hitbox_select' # None]_vars

\* ------------------------------------------------------------- handle drag
\* a pointer-move of a MOVE drag with a hitbox selected and a handle active
HandleDragMove ==
    /\ leftIsDown /\ pressState = MOVE /\ state = MOVE
    /\ scale_select # NoneName /\ HasSelectedRect
    /\ pointer' # pointer

\* C34: during a handle drag the total delta applied to the rectangle per axis
\* equals floor((current pointer - press point) / magnification): from one
\* sample to the next the rectangle is scaled, in the handle's direction, by
\* the change of that offset (the offset is 0 at the press), so a drag whose
\* pointer returns to the press point leaves the rectangle as it was.
C34_HandleDragFollowsPointer ==
    [][HandleDragMove =>
        SelectedRect' =
            Scale(SelectedRect, scale_select,
                  DragOffset(pointer'[1], left_down[1]) - DragOffset(pointer[1], left_down[1]),
                  DragOffset(pointer'[2], left_down[2]) - DragOffset(pointer[2], left_down[2]))]_vars

\* ------------------------------------------------------------ sprite labels
\* the text the user may type into the inspector's sprite label field
TypedLabels == {<<"edited", 0, 0>>}

\* Frame.onSpriteProperties: the field is enabled while a cell is selected
OnSpriteProperties(text) ==
    /\ select # NoneKey
    /\ sprite_names' = IF select \in DOMAIN sprite_names
                       THEN [sprite_names EXCEPT ![select] = text]
                       ELSE sprite_names @@ (select :> text)
    /\ saved' = FALSE
    /\ UNCHANGED <<state, sheet_loaded, magnify, magnify_factor, sheet, sheet_pos, rows,
                   cols, select, select_position, select_preview, sprites, destinations,
                   n_hitboxes_created, hitbox_buffer, hitbox_select, scale_select,
                   scale_rects, left_down, middle_down, envVars, histVars>>

NextLabels ==
    \/ OnLeftDown
    \/ OnLeftUp
    \/ \E p \in KeyPositions : OnMotion(p, 0)
    \/ OnToolSelect
    \/ OnToolDraw
    \/ \E size \in SheetSizes : OnFileMenuNew(size)
    \/ \E c \in GridCounts : OnSpritesheetProperties(1, c)
    \/ \E text \in TypedLabels : OnSpriteProperties(text)
SpecLabels == Init /\ [][NextLabels]_vars

\* a SELECT pointer-down that selects a cell
SelectPress == OnLeftDown /\ state = SELECT /\ select' # NoneKey

\* C35: a SELECT click on a cell whose sprite already exists changes neither
\* that sprite's hitbox map nor its label; only the first selection of a cell
\* assigns the default name derived from the key.
C35_SelectionKeepsSprite ==
    [][SelectPress =>
        IF HasSprite(select') /\ select' \in DOMAIN sprite_names
        THEN /\ sprites'[select'] = sprites[select']
             /\ sprite_names'[select'] = sprite_names[select']
        ELSE sprite_names'[select'] = DefaultName(select')]_vars

\* ------------------------------------------------------------ zoom mid-drag
\* drawing and moving with a wheel step down while the left button is held
DragZoom == 1
DragPositions == {<<i, i>> : i \in 1..MaxSheet}
NextZoomDrag ==
    \/ OnLeftDown
    \/ OnLeftUp
    \/ \E p \in DragPositions : OnMotion(p, 0)
    \/ OnToolSelect
    \/ OnToolDraw
    \/ OnToolMove
    \/ \E size \in SheetSizes : OnFileMenuNew(size)
    \/ (leftIsDown /\ OnMouseWheel(-1, DragZoom, MaxPan))
SpecZoomDrag == Init /\ [][NextZoomDrag]_vars

\* a pointer-move of a DRAW drag whose pointer is, before and after, to the
\* right of and below the press point: the anchor is the corner (x, y)
DrawDragBelow ==
    /\ DrawDragMove
    /\ pointer[1] >= left_down[1] /\ pointer[2] >= left_down[2]
    /\ pointer'[1] >= left_down[1] /\ pointer'[2] >= left_down[2]

\* C36: edits in progress are stable under zoom: with wheel steps occurring
\* during a DRAW drag, the anchor corner of the rectangle being drawn is after
\* every pointer-move still the document point of the press, and a wheel step
\* during a MOVE translate drag leaves the dragged hitbox where it was.
C36_DragStableUnderZoom ==
    [][/\ DrawDragBelow =>
              /\ Get(destinations', hitbox_select[2]).x = Get(destinations, hitbox_select[2]).x
              /\ Get(destinations', hitbox_select[2]).y = Get(destinations, hitbox_select[2]).y
       /\ (magnify' # magnify /\ leftIsDown /\ pressState = MOVE /\ state = MOVE
             /\ scale_select = NoneName /\ HasSelectedRect) =>
              SelectedRect' = SelectedRect]_vars

\* ----------------------------------------------------- ids across persistence
\* C37: hitbox ids stay unique across persistence: a hitbox created after
\* LoadPXT receives an id different from every id of the loaded document, so
\* that in every sprite no two ids serialise to the same JSON key and a later
\* save and load keeps all entries.
C37_IdsUniqueAcrossLoad ==
    \A k \in DOMAIN sprites :
        \A i \in 1..Len(sprites[k].hitboxes) : \A j \in 1..Len(sprites[k].hitboxes) :
            i # j => JsonKey(sprites[k].hitboxes[i].key) # JsonKey(sprites[k].hitboxes[j].key)

\* ------------------------------------------------- records written per item
\* the number of hitbox records in the file ExportJSON writes
ExportedHitboxes(l) == Len(ExportData[l])

HitboxLookup ==
    /\ HasSprite(select)
    /\ HasKey(sprites[select].hitboxes, hitbox_select)

\* Frame.onHitboxSelected, run by the event loop for a queued hitbox event:
\* it reads the canvas and fills the inspector fields, or raises at the lookup
OnHitboxSelected ==
    /\ "hitbox" \in posted
    /\ posted' = posted \ {"hitbox"}
    /\ UNCHANGED <<canvasVars, envVars, zoomLevel, issued, pressState, pressSprites>>

QueueKeys == {"DELETE", "RIGHT"}
InitQueue == InitCanvas /\ posted = NoPosts
NextQueue ==
    \/ OnLeftDown
    \/ OnLeftUp
    \/ \E p \in KeyPositions : OnMotion(p, 0)
    \/ OnToolSelect
    \/ OnToolDraw
    \/ OnToolMove
    \/ \E size \in SheetSizes : OnFileMenuNew(size)
    \/ \E key \in QueueKeys : OnKeyDown(key, KeyDoc)
    \/ OnHitboxSelected
SpecQueue == InitQueue /\ [][NextQueue]_vars

\* C39: queued notifications are safe to handle late: whatever canvas input
\* events are handled between the posting of a hitbox-updated event and its
\* delivery, the host handler finds canvas.select and canvas.hitbox_select
\* referring to an existing sprite and an existing hitbox of it when it runs.
C39_LateDeliveryFindsHitbox ==
    [][OnHitboxSelected => HitboxLookup]_vars

====
